---- MODULE Spec2Model ----
(***************************************************************************)
(* Model of the somnologia backend: the relation-ID normalizer             *)
(* (DreamViewSet._parse_ids), the Dream create/update workflow             *)
(* (perform_create / perform_update), the interpret endpoint and the       *)
(* rule-based interpreter (ArtemidorusInterpreter).                        *)
(*                                                                         *)
(* Python values are tagged records:                                       *)
(*   None    [t |-> "none"]                                                *)
(*   int     [t |-> "int",  n |-> 3]                                       *)
(*   bool    [t |-> "bool", b |-> TRUE]                                    *)
(*   float   [t |-> "float", f |-> "1.5"]                                  *)
(*   str     [t |-> "str",  s |-> <<"1", ",", "2">>]  (sequence of chars)  *)
(*   list    [t |-> "list", items |-> << ... >>]                           *)
(*   dict    [t |-> "dict"]                                                *)
(* and a raised exception is [t |-> "raise", exc |-> "ValueError"].        *)
(***************************************************************************)
EXTENDS Integers, Sequences, FiniteSets, TLC

(***************************************************************************)
(* Characters and Python's str methods                                     *)
(***************************************************************************)
\* U+00B2 SUPERSCRIPT TWO: str.isdigit() is True for it, int() rejects it.
SUP2 == "sup2"

AsciiDigits == <<"0", "1", "2", "3", "4", "5", "6", "7", "8", "9">>

IsAsciiDigit(c) == \E i \in 1..10 : AsciiDigits[i] = c

DigitVal(c) == (CHOOSE i \in 1..10 : AsciiDigits[i] = c) - 1

\* the characters str.isdigit() accepts
IsDigitChar(c) == IsAsciiDigit(c) \/ c = SUP2

IsSpace(c) == c = " "

\* str.isdigit(): non-empty and every character is a digit character
isdigit(s) == Len(s) > 0 /\ \A i \in 1..Len(s) : IsDigitChar(s[i])

RECURSIVE lstrip(_)
lstrip(s) == IF s # <<>> /\ IsSpace(Head(s)) THEN lstrip(Tail(s)) ELSE s

RECURSIVE rstrip(_)
rstrip(s) ==
    IF s # <<>> /\ IsSpace(s[Len(s)]) THEN rstrip(SubSeq(s, 1, Len(s) - 1)) ELSE s

\* str.strip()
strip(s) == rstrip(lstrip(s))

\* str.split(sep): the pieces between separators, empty pieces kept
RECURSIVE split(_, _)
split(s, sep) ==
    IF \A i \in 1..Len(s) : s[i] # sep
    THEN <<s>>
    ELSE LET k == CHOOSE i \in 1..Len(s) :
                     s[i] = sep /\ \A j \in 1..(i - 1) : s[j] # sep
         IN  <<SubSeq(s, 1, k - 1)>> \o split(SubSeq(s, k + 1, Len(s)), sep)

RECURSIVE DecimalValue(_)
DecimalValue(s) ==
    IF s = <<>> THEN 0
    ELSE 10 * DecimalValue(SubSeq(s, 1, Len(s) - 1)) + DigitVal(s[Len(s)])

RECURSIVE DecimalDigits(_)
DecimalDigits(n) ==
    IF n < 10 THEN <<AsciiDigits[n + 1]>>
    ELSE DecimalDigits(n \div 10) \o <<AsciiDigits[(n % 10) + 1]>>

None == [t |-> "none"]
PyInt(n) == [t |-> "int", n |-> n]
PyStr(s) == [t |-> "str", s |-> s]
PyList(items) == [t |-> "list", items |-> items]
ValueError == [t |-> "raise", exc |-> "ValueError"]

\* str(item) for the element types _parse_ids applies it to
str(item) ==
    CASE item.t = "str"  -> item.s
      [] item.t = "int"  -> IF item.n < 0 THEN <<"-">> \o DecimalDigits(-item.n)
                            ELSE DecimalDigits(item.n)
      [] item.t = "bool" -> IF item.b THEN <<"T", "r", "u", "e">>
                            ELSE <<"F", "a", "l", "s", "e">>

\* int(item): an int is itself, a bool is 0/1, a str is parsed after
\* stripping whitespace: an optional sign and ASCII decimal digits, anything
\* else raises ValueError
int(item) ==
    CASE item.t = "int"  -> PyInt(item.n)
      [] item.t = "bool" -> PyInt(IF item.b THEN 1 ELSE 0)
      [] item.t = "str"  ->
            LET b    == strip(item.s)
                sgn  == b # <<>> /\ Head(b) \in {"-", "+"}
                body == IF sgn THEN Tail(b) ELSE b
            IN  IF body # <<>> /\ \A i \in 1..Len(body) : IsAsciiDigit(body[i])
                THEN PyInt(IF sgn /\ Head(b) = "-" THEN -DecimalValue(body)
                           ELSE DecimalValue(body))
                ELSE ValueError

(***************************************************************************)
(* The relation-ID normalizer, DreamViewSet._parse_ids                     *)
(***************************************************************************)
\* views.py:42, the filter of the comprehension over the comma-split pieces
KeepPiece(piece) == isdigit(strip(piece))

\* KeepItem with isinstance(item, str) in place of isinstance(item, (int, str))
KeepItem_StrOnly(item) == item.t = "str" /\ isdigit(strip(item.s))

\* views.py:45, the filter of the comprehension over the list's items
KeepItem(item) ==
    item.t \in {"int", "bool", "str"} /\ isdigit(strip(str(item)))

\* a list comprehension [int(..) for ..]: the first int() that raises ends it
RECURSIVE Collect(_)
Collect(vals) ==
    IF vals = <<>> THEN PyList(<<>>)
    ELSE LET h == Head(vals)
             r == Collect(Tail(vals))
         IN  IF h.t = "raise" THEN h
             ELSE IF r.t = "raise" THEN r
             ELSE PyList(<<h>> \o r.items)

SelectPieces(pieces) == SelectSeq(pieces, KeepPiece)

SelectItems(items) == SelectSeq(items, KeepItem)

ParseStr(s) ==
    LET kept == SelectPieces(split(s, ","))
    IN  Collect([i \in 1..Len(kept) |-> int(PyStr(strip(kept[i])))])

ParseList(items) ==
    LET kept == SelectItems(items)
    IN  Collect([i \in 1..Len(kept) |-> int(kept[i])])

\* what _parse_ids returns for a payload of an unexpected type
Unexpected(ids_data) == PyList(<<>>)

parse_ids(ids_data) ==
    CASE ids_data.t = "none" -> None
      [] ids_data.t = "str"  -> ParseStr(ids_data.s)
      [] ids_data.t = "list" -> ParseList(ids_data.items)
      [] OTHER               -> Unexpected(ids_data)

(***************************************************************************)
(* Payloads                                                                *)
(***************************************************************************)
MaxLen == 3
MaxListLen == 2

\* the characters string payloads are built from
Alphabet == {"1", "2", ",", " ", "x", "-", SUP2}

SeqsUpTo(S, n) == UNION {[1..k -> S] : k \in 0..n}

\* the example of the specification: "3, 5,5,bad,7"
ExampleStr == <<"3", ",", " ", "5", ",", "5", ",", "b", "a", "d", ",", "7">>

StrPayloads == {PyStr(s) : s \in SeqsUpTo(Alphabet, MaxLen) \cup {ExampleStr}}

\* the elements list payloads are built from
ItemStrs == {<<"1">>, <<" ", "2", " ">>, <<"1", "2">>, <<"x">>, <<>>,
             <<"-", "1">>, <<"1", ",", "2">>, <<SUP2>>}

Items ==
    {PyInt(n) : n \in {-1, 0, 1, 2, 10}}
        \cup {PyStr(s) : s \in ItemStrs}
        \cup {[t |-> "bool", b |-> TRUE], [t |-> "float", f |-> "1.5"], None,
              PyList(<<PyInt(1)>>), [t |-> "dict"]}

ListPayloads == {PyList(l) : l \in SeqsUpTo(Items, MaxListLen)}

ScalarPayloads ==
    {PyInt(n) : n \in {0, 1, 2}}
        \cup {[t |-> "bool", b |-> TRUE], [t |-> "float", f |-> "1.5"],
              [t |-> "dict"]}

Payloads == {None} \cup StrPayloads \cup ListPayloads \cup ScalarPayloads

(***************************************************************************)
(* State                                                                   *)
(***************************************************************************)
VARIABLES
    persons,    \* the Person table: id -> name
    tags,       \* the Tag table: id -> name
    dreams,     \* the Dream table: id -> [description, dream_date, persons, tags]
    seq,        \* the tables' auto-increment counters
    req,        \* the request handled last
    resp,       \* the response to it
    npayload,   \* the argument of the current _parse_ids call
    nresult,    \* what the call returned or raised; Pending before it ran
    nprev,      \* the result the argument was taken from, when it was
    inflight    \* the dream request a worker is in the middle of, if any

store == <<persons, tags, dreams, seq>>
nvars == <<npayload, nresult, nprev, inflight>>
vars == <<persons, tags, dreams, seq, req, resp, npayload, nresult, nprev,
         inflight>>

Pending == [t |-> "pending"]

\* a key the request body does not have
Absent == [t |-> "absent"]

Date(d) == [t |-> "date", d |-> d]

EmptyStore ==
    /\ persons = <<>>
    /\ tags = <<>>
    /\ dreams = <<>>
    /\ seq = [person |-> 0, tag |-> 0, dream |-> 0]

NoRequest == req = [op |-> "none"] /\ resp = [status |-> 0]

NormIdle == npayload = None /\ nresult = Pending /\ nprev = Pending

\* no worker is in the middle of a dream request
NoneInFlight == inflight = [pc |-> "idle"]

(***************************************************************************)
(* The normalizer on its own                                               *)
(***************************************************************************)
InitNorm ==
    /\ EmptyStore
    /\ NoRequest
    /\ npayload \in Payloads
    /\ nresult = Pending
    /\ nprev = Pending
    /\ NoneInFlight

\* one call _parse_ids(npayload)
Normalize ==
    /\ nresult = Pending
    /\ nresult' = parse_ids(npayload)
    /\ UNCHANGED <<npayload, nprev, inflight, store, req, resp>>

\* the returned value is passed to _parse_ids again
Renormalize ==
    /\ nresult.t \in {"none", "list"}
    /\ nprev = Pending
    /\ npayload' = nresult
    /\ nprev' = nresult
    /\ nresult' = parse_ids(nresult)
    /\ UNCHANGED <<inflight, store, req, resp>>

NextNorm == Normalize \/ Renormalize

SpecNorm == InitNorm /\ [][NextNorm]_vars

(***************************************************************************)
(* Claims about the normalizer                                             *)
(***************************************************************************)
Called == nresult # Pending /\ nprev = Pending

\* C3: a bare integer payload n is normalized to the one-element list [n].
C3_ScalarIsSingleton ==
    (Called /\ npayload.t = "int") => nresult = PyList(<<PyInt(npayload.n)>>)

\* a piece that is a non-negative integer: ASCII decimal digits, at least one
NonNegInteger(piece) ==
    piece # <<>> /\ \A i \in 1..Len(piece) : IsAsciiDigit(piece[i])

C4_Expected(s) ==
    LET trimmed == [i \in 1..Len(split(s, ",")) |-> strip(split(s, ",")[i])]
        kept    == SelectSeq(trimmed, NonNegInteger)
    IN  PyList([i \in 1..Len(kept) |-> PyInt(DecimalValue(kept[i]))])

\* C4: for every string payload the normalizer returns, without raising, the
\* integers of the comma-separated pieces that are non-negative integers
\* after trimming, in input order and with duplicates kept.
C4_StringNormalized ==
    (Called /\ npayload.t = "str") => nresult = C4_Expected(npayload.s)

\* an element the claim keeps: an integer, or a string that reads as one
C5_Integral(item) ==
    \/ item.t = "int"
    \/ item.t = "str" /\ int(item).t = "int"

C5_Expected(items) ==
    LET kept == SelectSeq(items, C5_Integral)
    IN  PyList([i \in 1..Len(kept) |-> int(kept[i])])

\* C5: for every list payload the normalizer returns, without raising, the
\* integer value of each element that is an integer or an integer-shaped
\* string, in input order, and drops every other element.
C5_ListNormalized ==
    (Called /\ npayload.t = "list") => nresult = C5_Expected(npayload.items)

\* C6: the normalizer is idempotent: normalizing a value it returned gives
\* that same value (the "absent" sentinel stays absent, a list stays the
\* same list).
C6_Idempotent == nprev # Pending => nresult = nprev

C6_Witness ==
    /\ nprev # Pending
    /\ nprev.t = "list"
    /\ Len(nprev.items) >= 2
    /\ nresult = nprev

(***************************************************************************)
(* The store and the Dream workflow                                        *)
(***************************************************************************)
MaxPersons == 2
MaxTags == 1
MaxDreams == 1

Alice == <<"A", "l", "i", "c", "e">>
Bob == <<"B", "o", "b">>
fantasy == <<"f", "a", "n", "t", "a", "s", "y">>
Fantasy == <<"F", "a", "n", "t", "a", "s", "y">>

\* the days date.today() returns while the model runs
Days == {10, 11}

Remove(table, id) == [i \in DOMAIN table \ {id} |-> table[i]]

\* request.data.get(key, default)
Get(value, default) == IF value = Absent THEN default ELSE value

\* Person.objects.filter(id__in=ids), Tag.objects.filter(id__in=ids): the ids
\* of the rows of the table that the list names
FilterIdIn(table, ids) ==
    {id \in DOMAIN table : \E i \in 1..Len(ids) : ids[i].n = id}

\* ValidDescription with blank=True on Dream.description
ValidDescription_AllowBlank(d) == d.t = "str"

\* DreamSerializer: description is a required, non-blank text
ValidDescription(d) == d.t = "str" /\ strip(d.s) # <<>>

\* views.py:60, not validated_data.get('dream_date')
NoDreamDate(r) == r.dream_date \in {Absent, None}

\* DefaultDreamDate without the timedelta(days=1)
DefaultDreamDate_Today(today) == Date(today)

\* views.py:61
DefaultDreamDate(today) == Date(today - 1)

\* views.py:66-69 and 92-95: parse, and set the persons unless None came back
SetPersons(dream, raw) ==
    LET parsed == parse_ids(raw)
    IN  IF parsed.t = "none" THEN dream
        ELSE [dream EXCEPT !.persons = FilterIdIn(persons, parsed.items)]

\* views.py:72-75 and 98-101
SetTags(dream, raw) ==
    LET parsed == parse_ids(raw)
    IN  IF parsed.t = "none" THEN dream
        ELSE [dream EXCEPT !.tags = FilterIdIn(tags, parsed.items)]

\* the relation part of perform_create/perform_update on the saved dream:
\* persons first, then tags; a ValueError out of _parse_ids ends the request
\* with what was written so far (there is no transaction around the steps)
Reconcile(saved, person_ids_raw, tag_ids_raw) ==
    IF parse_ids(person_ids_raw).t = "raise"
    THEN [dream |-> saved, raised |-> TRUE]
    ELSE IF parse_ids(tag_ids_raw).t = "raise"
    THEN [dream |-> SetPersons(saved, person_ids_raw), raised |-> TRUE]
    ELSE [dream |-> SetTags(SetPersons(saved, person_ids_raw), tag_ids_raw),
          raised |-> FALSE]

\* views.py:56-57 and 86-87: the raw relation payloads; a create takes []
\* for a missing key, an update None
person_ids_raw(r) ==
    Get(r.persons, IF r.op = "create" THEN PyList(<<>>) ELSE None)

tag_ids_raw(r) == Get(r.tags, IF r.op = "create" THEN PyList(<<>>) ELSE None)

\* views.py:60-63: the row serializer.save() inserts
saved_on_create(r) ==
    [description |-> r.description.s,
     dream_date  |-> IF NoDreamDate(r) THEN DefaultDreamDate(r.today)
                     ELSE r.dream_date,
     persons     |-> {},
     tags        |-> {}]

\* views.py:89: the row serializer.save() leaves
saved_on_update(old, r) ==
    [old EXCEPT
       !.description = IF r.description = Absent THEN @ ELSE r.description.s,
       !.dream_date  = IF r.dream_date = Absent THEN @ ELSE r.dream_date]

perform_create(r) ==
    Reconcile(saved_on_create(r), person_ids_raw(r), tag_ids_raw(r))

perform_update(old, r) ==
    Reconcile(saved_on_update(old, r), person_ids_raw(r), tag_ids_raw(r))

(***************************************************************************)
(* Requests                                                                *)
(***************************************************************************)
DreamText == <<"f", "l", "y">>

PersonPayloads ==
    {Absent, PyList(<<>>), PyList(<<PyInt(1)>>),
     PyList(<<PyInt(2), PyInt(9)>>), PyStr(<<SUP2>>)}

TagPayloads ==
    {Absent, PyList(<<>>), PyList(<<PyInt(1), PyInt(9)>>), PyStr(<<SUP2>>)}

CreateRequest(description, dream_date, p, t, today) ==
    [op |-> "create", description |-> description, dream_date |-> dream_date,
     persons |-> p, tags |-> t, today |-> today]

UpdateRequest(method, id, description, dream_date, p, t) ==
    [op |-> "update", method |-> method, id |-> id,
     description |-> description, dream_date |-> dream_date,
     persons |-> p, tags |-> t]

\* create requests that vary the relation payloads and the description, and
\* one with a bare id for persons
CreateRequests ==
    {CreateRequest(PyStr(DreamText), Absent, p, t, 11) :
        p \in PersonPayloads, t \in TagPayloads}
    \cup {CreateRequest(x, Date(11), PyList(<<PyInt(1)>>),
                        PyList(<<PyInt(1), PyInt(9)>>), 11) :
            x \in {Absent, None, PyStr(<<>>), PyStr(<<" ">>)}}
    \cup {CreateRequest(PyStr(DreamText), Absent, PyInt(1), Absent, 11)}

\* update requests that vary the relation payloads and the description, and
\* one with a bare id for persons
UpdateRequests ==
    {UpdateRequest("PATCH", id, Absent, Absent, p, t) :
        id \in 1..MaxDreams, p \in PersonPayloads, t \in TagPayloads}
    \cup {UpdateRequest(m, id, x, Absent, Absent, PyList(<<>>)) :
            m \in {"PUT", "PATCH"}, id \in 1..MaxDreams,
            x \in {Absent, PyStr(<<>>), PyStr(DreamText)}}
    \cup {UpdateRequest("PATCH", id, Absent, Absent, PyInt(1), Absent) :
            id \in 1..MaxDreams}

\* create requests that vary dream_date and the day they arrive on
DateCreateRequests ==
    {CreateRequest(PyStr(DreamText), d, p, Absent, n) :
        d \in {Absent, None, Date(10), Date(11), Date(12)},
        p \in {Absent, PyList(<<PyInt(1)>>)}, n \in Days}
    \cup {CreateRequest(x, d, Absent, Absent, 11) :
            x \in {Absent, PyStr(<<>>)}, d \in {Absent, Date(12)}}

\* update requests that vary dream_date
DateUpdateRequests ==
    {UpdateRequest("PATCH", id, Absent, d, Absent, Absent) :
        id \in 1..MaxDreams, d \in {Absent, None, Date(12)}}

(***************************************************************************)
(* Operations                                                              *)
(***************************************************************************)
Init == EmptyStore /\ NoRequest /\ NormIdle /\ NoneInFlight

\* POST /persons/
CreatePerson(name) ==
    /\ LET id == seq.person + 1
       IN  /\ persons' = persons @@ (id :> name)
           /\ seq' = [seq EXCEPT !.person = id]
           /\ req' = [op |-> "person_create"]
           /\ resp' = [status |-> 201, id |-> id]
    /\ UNCHANGED <<tags, dreams, nvars>>

\* DELETE /persons/{id}/: the row and its links to dreams go
DeletePerson(id) ==
    /\ id \in DOMAIN persons
    /\ persons' = Remove(persons, id)
    /\ dreams' = [d \in DOMAIN dreams |->
                    [dreams[d] EXCEPT !.persons = @ \ {id}]]
    /\ req' = [op |-> "person_delete"]
    /\ resp' = [status |-> 204, id |-> id]
    /\ UNCHANGED <<tags, seq, nvars>>

\* a Tag row is inserted; name is unique
CreateTag(name) ==
    /\ \A i \in DOMAIN tags : tags[i] # name
    /\ LET id == seq.tag + 1
       IN  /\ tags' = tags @@ (id :> name)
           /\ seq' = [seq EXCEPT !.tag = id]
           /\ req' = [op |-> "tag_create"]
           /\ resp' = [status |-> 201, id |-> id]
    /\ UNCHANGED <<persons, dreams, nvars>>

DeleteTag(id) ==
    /\ id \in DOMAIN tags
    /\ tags' = Remove(tags, id)
    /\ dreams' = [d \in DOMAIN dreams |->
                    [dreams[d] EXCEPT !.tags = @ \ {id}]]
    /\ req' = [op |-> "tag_delete"]
    /\ resp' = [status |-> 204, id |-> id]
    /\ UNCHANGED <<persons, seq, nvars>>

\* POST /dreams/
CreateDream(r) ==
    /\ req' = r
    /\ IF ~ValidDescription(r.description)
       THEN /\ resp' = [status |-> 400, id |-> 0]
            /\ UNCHANGED <<dreams, seq>>
       ELSE LET id  == seq.dream + 1
                out == perform_create(r)
            IN  /\ dreams' = dreams @@ (id :> out.dream)
                /\ seq' = [seq EXCEPT !.dream = id]
                /\ resp' = [status |-> IF out.raised THEN 500 ELSE 201,
                            id |-> id]
    /\ UNCHANGED <<persons, tags, nvars>>

\* PUT/PATCH /dreams/{id}/
UpdateDream(r) ==
    /\ req' = r
    /\ IF r.id \notin DOMAIN dreams
       THEN /\ resp' = [status |-> 404, id |-> r.id]
            /\ UNCHANGED dreams
       ELSE IF \/ r.description # Absent /\ ~ValidDescription(r.description)
               \/ r.description = Absent /\ r.method = "PUT"
       THEN /\ resp' = [status |-> 400, id |-> r.id]
            /\ UNCHANGED dreams
       ELSE LET out == perform_update(dreams[r.id], r)
            IN  /\ dreams' = [dreams EXCEPT ![r.id] = out.dream]
                /\ resp' = [status |-> IF out.raised THEN 500 ELSE 200,
                            id |-> r.id]
    /\ UNCHANGED <<persons, tags, seq, nvars>>

\* DELETE /dreams/{id}/
DeleteDream(id) ==
    /\ id \in DOMAIN dreams
    /\ dreams' = Remove(dreams, id)
    /\ req' = [op |-> "dream_delete"]
    /\ resp' = [status |-> 204, id |-> id]
    /\ UNCHANGED <<persons, tags, seq, nvars>>

(***************************************************************************)
(* The rule-based interpreter, ArtemidorusInterpreter                      *)
(***************************************************************************)
UpperLetters ==
    <<"A", "B", "C", "D", "E", "F", "G", "H", "I", "J", "K", "L", "M",
     "N", "O", "P", "Q", "R", "S", "T", "U", "V", "W", "X", "Y", "Z">>

LowerLetters ==
    <<"a", "b", "c", "d", "e", "f", "g", "h", "i", "j", "k", "l", "m",
     "n", "o", "p", "q", "r", "s", "t", "u", "v", "w", "x", "y", "z">>

UpperSet == {UpperLetters[i] : i \in 1..26}

LowerSet == {LowerLetters[i] : i \in 1..26}

\* the lowercase letter of each uppercase letter
LowerOf == [c \in UpperSet |-> LowerLetters[CHOOSE i \in 1..26 : UpperLetters[i] = c]]

IsUpper(c) == c \in UpperSet

IsLower(c) == c \in LowerSet

\* a character \b counts as part of a word
IsWordChar(c) == IsUpper(c) \/ IsLower(c) \/ IsDigitChar(c) \/ c = "_"

LowerChar(c) == IF IsUpper(c) THEN LowerOf[c] ELSE c

\* str.lower()
lower(s) == [i \in 1..Len(s) |-> LowerChar(s[i])]

\* needle in hay, for strings
Contains(hay, needle) ==
    \E i \in 1..(Len(hay) - Len(needle) + 1) :
        \A k \in 1..Len(needle) : hay[i + k - 1] = needle[k]

\* the last index of the run of [a-z] characters that starts at k (k - 1
\* when there is none)
RECURSIVE RunEnd(_, _)
RunEnd(text, k) ==
    IF k <= Len(text) /\ IsLower(text[k]) THEN RunEnd(text, k + 1) ELSE k - 1

\* where a match of \b[A-Z][a-z]+\b that starts at i ends; 0 when none does.
\* Only the longest run of lowercase letters can end at a word boundary.
MatchEnd(text, i) ==
    IF /\ IsUpper(text[i])
       /\ (i = 1 \/ ~IsWordChar(text[i - 1]))
    THEN LET j == RunEnd(text, i + 1)
         IN  IF j >= i + 1 /\ (j = Len(text) \/ ~IsWordChar(text[j + 1]))
             THEN j ELSE 0
    ELSE 0

\* re.findall(r'\b[A-Z][a-z]+\b', text), scanning from position i
RECURSIVE findall(_, _)
findall(text, i) ==
    IF i > Len(text) THEN <<>>
    ELSE LET j == MatchEnd(text, i)
         IN  IF j > 0 THEN <<SubSeq(text, i, j)>> \o findall(text, j + 1)
             ELSE findall(text, i + 1)

Range(f) == {f[i] : i \in DOMAIN f}

\* list(set(..)): the elements once each, in an order of the set's choosing
list_of_set(S) == CHOOSE q \in [1..Cardinality(S) -> S] : Range(q) = S

\* {row.name.lower(): row.id for row in table.objects.all()}: one id per
\* lowercased name. Of the rows that share a lowercased name the one the
\* query returns last stays; which one that is depends on the database's
\* collation and its order of equal names, so every one of them can.
NameMaps(table) ==
    LET keys == {lower(table[i]) : i \in DOMAIN table}
    IN  {m \in [keys -> DOMAIN table] : \A k \in keys : lower(table[m[k]]) = k}

tag_keywords ==
    <<[tag_name |-> <<"l", "u", "c", "i", "d">>,
       keywords |->
         <<<<"l", "u", "c", "i", "d">>,
           <<"a", "w", "a", "r", "e">>,
           <<"c", "o", "n", "t", "r", "o", "l">>,
           <<"r", "e", "a", "l", "i", "z", "e">>,
           <<"w", "a", "k", "e", " ", "u", "p">>>>],
      [tag_name |-> <<"n", "i", "g", "h", "t", "m", "a", "r", "e">>,
       keywords |->
         <<<<"n", "i", "g", "h", "t", "m", "a", "r", "e">>,
           <<"s", "c", "a", "r", "y">>,
           <<"f", "e", "a", "r">>,
           <<"m", "o", "n", "s", "t", "e", "r">>,
           <<"c", "h", "a", "s", "e">>,
           <<"a", "n", "x", "i", "e", "t", "y">>>>],
      [tag_name |-> <<"f", "a", "n", "t", "a", "s", "y">>,
       keywords |->
         <<<<"f", "l", "y", "i", "n", "g">>,
           <<"m", "a", "g", "i", "c">>,
           <<"m", "y", "t", "h", "i", "c", "a", "l">>,
           <<"d", "r", "a", "g", "o", "n">>,
           <<"u", "n", "i", "c", "o", "r", "n">>,
           <<"a", "d", "v", "e", "n", "t", "u", "r", "e">>>>],
      [tag_name |-> <<"r", "e", "a", "l", "i", "s", "t", "i", "c">>,
       keywords |->
         <<<<"w", "o", "r", "k">>,
           <<"s", "c", "h", "o", "o", "l">>,
           <<"d", "a", "i", "l", "y", " ", "l", "i", "f", "e">>,
           <<"r", "o", "u", "t", "i", "n", "e">>,
           <<"n", "o", "r", "m", "a", "l">>>>]>>

InterpretationPreview == 100

NoSuggestions ==
    [interpretation |-> <<>>,
     suggested_person_ids |-> <<>>,
     suggested_new_person_names |-> <<>>,
     suggested_tag_ids |-> <<>>]

\* artemidorus.py:37-42, the ids of the tokens that name a stored Person
person_ids_in_dream(potential_names, person_names_map) ==
    LET known == SelectSeq(potential_names,
                           LAMBDA name : lower(name) \in DOMAIN person_names_map)
    IN  [i \in 1..Len(known) |-> person_names_map[lower(known[i])]]

\* artemidorus.py:41-42, the tokens that name no stored Person
new_person_names(potential_names, person_names_map) ==
    {potential_names[i] : i \in
        {k \in 1..Len(potential_names) :
            lower(potential_names[k]) \notin DOMAIN person_names_map}}

\* artemidorus.py:67
UniquePersonIds(ids) == list_of_set(Range(ids))

\* artemidorus.py:58-63
suggested_tag_ids(description_lower, tag_name_to_id_map) ==
    {tag_name_to_id_map[tag_keywords[c].tag_name] : c \in
        {k \in 1..Len(tag_keywords) :
            /\ tag_keywords[k].tag_name \in DOMAIN tag_name_to_id_map
            /\ \E w \in 1..Len(tag_keywords[k].keywords) :
                  Contains(description_lower, tag_keywords[k].keywords[w])}}

analyze_dream_description(dream_description, person_names_map, tag_name_to_id_map) ==
    IF dream_description = <<>> THEN NoSuggestions
    ELSE LET potential_names == findall(dream_description, 1)
         IN  [interpretation |->
                  SubSeq(dream_description, 1,
                         IF Len(dream_description) < InterpretationPreview
                         THEN Len(dream_description)
                         ELSE InterpretationPreview),
              suggested_person_ids |->
                  UniquePersonIds(
                      person_ids_in_dream(potential_names, person_names_map)),
              suggested_new_person_names |->
                  list_of_set(
                      new_person_names(potential_names, person_names_map)),
              suggested_tag_ids |->
                  list_of_set(
                      suggested_tag_ids(lower(dream_description),
                                        tag_name_to_id_map))]

\* views.py:155, not dream_description
NoDescription(d) == d \in {Absent, None, PyStr(<<>>)}

\* POST /interpret/
Interpret(description) ==
    /\ req' = [op |-> "interpret", description |-> description]
    /\ IF NoDescription(description)
       THEN resp' = [status |-> 400, id |-> 0]
       ELSE \E pm \in NameMaps(persons), tm \in NameMaps(tags) :
              LET a == analyze_dream_description(description.s, pm, tm)
              IN  resp' = [status |-> 200,
                           id |-> 0,
                           analysis |-> a,
                           suggested_persons |->
                               FilterIdIn(persons,
                                   [i \in 1..Len(a.suggested_person_ids) |->
                                       PyInt(a.suggested_person_ids[i])]),
                           suggested_tags |->
                               FilterIdIn(tags,
                                   [i \in 1..Len(a.suggested_tag_ids) |->
                                       PyInt(a.suggested_tag_ids[i])]),
                           generated_image_url |->
                               "images/dream_placeholder.png"]
    /\ UNCHANGED <<store, nvars>>

(***************************************************************************)
(* Dream creation and update write by write                                *)
(***************************************************************************)
\* the database setting that wraps a request in one transaction; Django's
\* default, and what the design document describes, is that it is off
ATOMIC_REQUESTS == FALSE

\* the Dream table once the transaction of request f is rolled back
KeptOnFailure_Undo(table, f) ==
    IF f.old = Absent THEN Remove(table, f.id)
    ELSE [table EXCEPT ![f.id] = f.old]

\* the Dream table once request f has ended early: perform_create and
\* perform_update open no transaction and catch nothing, so each completed
\* write stays unless the request as a whole is one transaction
KeptOnFailure(table, f) ==
    IF ATOMIC_REQUESTS THEN KeptOnFailure_Undo(table, f) ELSE table

\* no worker is between two writes
Free == inflight.pc \in {"idle", "ended"}

InFlight(r, id, old) ==
    [pc |-> "persons", r |-> r, id |-> id, k |-> 1, old |-> old,
     outcome |-> "running"]

\* POST /dreams/, first write: serializer.save() inserts the row
SaveCreate(r) ==
    /\ Free
    /\ ValidDescription(r.description)
    /\ LET id == seq.dream + 1
       IN  /\ dreams' = dreams @@ (id :> saved_on_create(r))
           /\ seq' = [seq EXCEPT !.dream = id]
           /\ inflight' = InFlight(r, id, Absent)
    /\ UNCHANGED <<persons, tags, req, resp, npayload, nresult, nprev>>

\* PATCH /dreams/{id}/, first write: serializer.save() updates the row
SaveUpdate(r) ==
    /\ Free
    /\ r.id \in DOMAIN dreams
    /\ r.description # Absent => ValidDescription(r.description)
    /\ dreams' = [dreams EXCEPT ![r.id] = saved_on_update(@, r)]
    /\ inflight' = InFlight(r, r.id, dreams[r.id])
    /\ UNCHANGED <<persons, tags, seq, req, resp, npayload, nresult, nprev>>

\* the request ends early: the exception becomes a 500 response, a killed
\* worker answers nothing
EndEarly(outcome) ==
    /\ dreams' = KeptOnFailure(dreams, inflight)
    /\ inflight' = [inflight EXCEPT !.pc = "ended", !.outcome = outcome]
    /\ req' = inflight.r
    /\ resp' = [status |-> IF outcome = "failed" THEN 500 ELSE 0,
                id |-> inflight.id]

\* second write: _parse_ids on the persons payload, then dream.persons.set
StepPersons ==
    /\ inflight.pc = "persons"
    /\ IF parse_ids(person_ids_raw(inflight.r)).t = "raise"
       THEN EndEarly("failed")
       ELSE /\ dreams' = [dreams EXCEPT ![inflight.id] =
                             SetPersons(@, person_ids_raw(inflight.r))]
            /\ inflight' = [inflight EXCEPT !.pc = "tags", !.k = 2]
            /\ UNCHANGED <<req, resp>>
    /\ UNCHANGED <<persons, tags, seq, npayload, nresult, nprev>>

\* third write: _parse_ids on the tags payload, then dream.tags.set
StepTags ==
    /\ inflight.pc = "tags"
    /\ IF parse_ids(tag_ids_raw(inflight.r)).t = "raise"
       THEN EndEarly("failed")
       ELSE /\ dreams' = [dreams EXCEPT ![inflight.id] =
                             SetTags(@, tag_ids_raw(inflight.r))]
            /\ inflight' = [inflight EXCEPT !.pc = "ended", !.k = 3,
                                            !.outcome = "ok"]
            /\ req' = inflight.r
            /\ resp' = [status |-> IF inflight.r.op = "create" THEN 201
                                   ELSE 200,
                        id |-> inflight.id]
    /\ UNCHANGED <<persons, tags, seq, npayload, nresult, nprev>>

\* the worker is killed between two writes
Interrupt ==
    /\ inflight.pc \in {"persons", "tags"}
    /\ EndEarly("interrupted")
    /\ UNCHANGED <<persons, tags, seq, npayload, nresult, nprev>>

\* GET /dreams/ by another worker: the rows as they are now
ListDreams ==
    /\ req' = [op |-> "list"]
    /\ resp' = [status |-> 200, dreams |-> dreams]
    /\ UNCHANGED <<store, nvars>>

(***************************************************************************)
(* The dashboard, dashboard_data_api                                       *)
(***************************************************************************)
\* Dream.persons is declared with related_name='dreams': that is the name
\* under which a query on Person reaches the dreams of a person
related_name == "dreams"

\* Count('dream'): the name the view hands to the aggregate
CountField == "dream"

\* the slice [:3] of the latest dreams
LatestDreams == 3

\* whether a query on Person can resolve the name to the Dream relation
Resolves(field) == field = related_name

\* the number of dreams whose persons contain the person
qty_dreams(id) == Cardinality({d \in DOMAIN dreams : id \in dreams[d].persons})

\* the code point order of the letters names are made of
CharCode(c) ==
    IF IsUpper(c) THEN CHOOSE i \in 1..26 : UpperLetters[i] = c
    ELSE IF IsLower(c) THEN 26 + (CHOOSE i \in 1..26 : LowerLetters[i] = c)
    ELSE 0

\* a <= b for strings
RECURSIVE StrLeq(_, _)
StrLeq(a, b) ==
    IF a = <<>> THEN TRUE
    ELSE IF b = <<>> THEN FALSE
    ELSE IF Head(a) # Head(b) THEN CharCode(Head(a)) < CharCode(Head(b))
    ELSE StrLeq(Tail(a), Tail(b))

\* the orders a set of ids can be listed in
RECURSIVE Orders(_)
Orders(ids) ==
    IF ids = {} THEN {<<>>}
    ELSE UNION {{<<i>> \o o : o \in Orders(ids \ {i})} : i \in ids}

\* order_by('name'): the rows by name; rows of one name come in any order
order_by_name(table) ==
    {o \in Orders(DOMAIN table) :
        \A i \in 1..(Len(o) - 1) : StrLeq(table[o[i]], table[o[i + 1]])}

\* order_by('-entry_created_at')[:3]: rows are created in id order
RECURSIVE latest(_, _)
latest(ids, n) ==
    IF ids = {} \/ n = 0 THEN <<>>
    ELSE LET top == CHOOSE i \in ids : \A j \in ids : j <= i
         IN  <<top>> \o latest(ids \ {top}, n - 1)

\* GET /dashboard/: annotate() raises FieldError for a name the query cannot
\* resolve, before any row is read; the photo column is not modelled
Dashboard ==
    /\ req' = [op |-> "dashboard"]
    /\ IF ~Resolves(CountField)
       THEN resp' = [status |-> 500, exc |-> "FieldError"]
       ELSE \E persons_with_count \in order_by_name(persons) :
              resp' = [status |-> 200,
                       latest_dreams |-> latest(DOMAIN dreams, LatestDreams),
                       persons_summary |->
                           [i \in 1..Len(persons_with_count) |->
                               [id |-> persons_with_count[i],
                                name |-> persons[persons_with_count[i]],
                                qty_dreams |->
                                    qty_dreams(persons_with_count[i])]],
                       chart_labels |->
                           [i \in 1..Len(persons_with_count) |->
                               persons[persons_with_count[i]]],
                       chart_data |->
                           [i \in 1..Len(persons_with_count) |->
                               qty_dreams(persons_with_count[i])]]
    /\ UNCHANGED <<store, nvars>>

InterpretRequests == {Absent, None, PyStr(<<>>), PyStr(DreamText)}

Next ==
    \/ \E name \in {Alice} : seq.person < MaxPersons /\ CreatePerson(name)
    \/ \E id \in 1..MaxPersons : DeletePerson(id)
    \/ \E name \in {fantasy} : seq.tag < MaxTags /\ CreateTag(name)
    \/ \E id \in 1..MaxTags : DeleteTag(id)
    \/ \E r \in CreateRequests : seq.dream < MaxDreams /\ CreateDream(r)
    \/ \E r \in UpdateRequests : UpdateDream(r)
    \/ \E id \in 1..MaxDreams : DeleteDream(id)
    \/ \E d \in InterpretRequests : Interpret(d)

Spec == Init /\ [][Next]_vars

(***************************************************************************)
(* The dream_date policy: requests that vary the date and the day          *)
(***************************************************************************)
NextDate ==
    \/ \E name \in {Alice} : seq.person < MaxPersons /\ CreatePerson(name)
    \/ \E r \in DateCreateRequests : seq.dream < MaxDreams /\ CreateDream(r)
    \/ \E r \in DateUpdateRequests : UpdateDream(r)
    \/ \E id \in 1..MaxDreams : DeleteDream(id)

SpecDate == Init /\ [][NextDate]_vars

(***************************************************************************)
(* The dashboard over stores of persons and dreams                         *)
(***************************************************************************)
MaxCounted == 2

CountedPayloads ==
    {Absent, PyList(<<>>), PyList(<<PyInt(1)>>),
     PyList(<<PyInt(1), PyInt(2)>>)}

CountedCreateRequests ==
    {CreateRequest(PyStr(DreamText), Absent, p, Absent, 11) :
        p \in CountedPayloads}

CountedUpdateRequests ==
    {UpdateRequest("PATCH", id, Absent, Absent, p, Absent) :
        id \in 1..MaxCounted, p \in CountedPayloads}

NextDash ==
    \/ \E name \in {Alice, Bob} : seq.person < MaxCounted /\ CreatePerson(name)
    \/ \E id \in 1..MaxCounted : DeletePerson(id)
    \/ \E r \in CountedCreateRequests :
         seq.dream < MaxCounted /\ CreateDream(r)
    \/ \E r \in CountedUpdateRequests : UpdateDream(r)
    \/ \E id \in 1..MaxCounted : DeleteDream(id)
    \/ Dashboard

SpecDash == Init /\ [][NextDash]_vars

(***************************************************************************)
(* Dream requests write by write, next to other requests                   *)
(***************************************************************************)
\* persons and tags payloads: both name stored rows, or one of them makes
\* _parse_ids raise
StepPayloads ==
    {<<PyList(<<PyInt(1)>>), PyList(<<PyInt(1)>>)>>,
     <<PyList(<<PyInt(1), PyInt(2)>>), PyStr(<<SUP2>>)>>,
     <<PyStr(<<SUP2>>), PyList(<<PyInt(1)>>)>>,
     <<Absent, PyList(<<>>)>>}

StepCreateRequests ==
    {CreateRequest(PyStr(DreamText), Date(11), pt[1], pt[2], 11) :
        pt \in StepPayloads}

StepUpdateRequests ==
    {UpdateRequest("PATCH", id, x, Absent, pt[1], pt[2]) :
        id \in 1..MaxDreams, x \in {Absent, PyStr(<<"f">>)},
        pt \in StepPayloads}

NextSteps ==
    \/ \E name \in {Alice} : seq.person < MaxPersons /\ CreatePerson(name)
    \/ \E name \in {fantasy} : seq.tag < MaxTags /\ CreateTag(name)
    \/ \E r \in StepCreateRequests : seq.dream < MaxDreams /\ SaveCreate(r)
    \/ \E r \in StepUpdateRequests : SaveUpdate(r)
    \/ StepPersons
    \/ StepTags
    \/ Interrupt
    \/ ListDreams

SpecSteps == Init /\ [][NextSteps]_vars

(***************************************************************************)
(* The interpreter over stores and texts                                   *)
(***************************************************************************)
MaxFrags == 2
MaxNamed == 2

alice == <<"a", "l", "i", "c", "e">>
recurring == <<"r", "e", "c", "u", "r", "r", "i", "n", "g">>

PersonNames == {Alice, alice, Bob}

TagNames == {fantasy, Fantasy, recurring}

Fragments ==
    {Alice, Bob, <<" ">>, <<"f", "l", "y">>, <<"i", "n", "g">>,
     <<"a", "w", "a", "r", "e">>, <<"M", "a", "g", "i", "c">>}

RECURSIVE Concat(_)
Concat(parts) == IF parts = <<>> THEN <<>> ELSE Head(parts) \o Concat(Tail(parts))

\* the example of the specification
ExampleText ==
    Concat(<<<<"I">>, <<" ">>, <<"s", "a", "w">>, <<" ">>, Alice,
             <<" ">>, <<"a", "n", "d">>, <<" ">>, Bob, <<" ">>,
             <<"f", "l", "y", "i", "n", "g">>, <<" ">>, <<"o", "v", "e", "r">>,
             <<" ">>, <<"m", "o", "u", "n", "t", "a", "i", "n", "s">>>>)

Texts ==
    {Concat(parts) : parts \in SeqsUpTo(Fragments, MaxFrags)} \cup {ExampleText}

NextInterp ==
    \/ \E name \in PersonNames : seq.person < MaxNamed /\ CreatePerson(name)
    \/ \E name \in TagNames : seq.tag < MaxNamed /\ CreateTag(name)
    \/ \E text \in Texts : Interpret(PyStr(text))

SpecInterp == Init /\ [][NextInterp]_vars

(***************************************************************************)
(* Claims about the Dream workflow                                         *)
(***************************************************************************)
\* the request passed validation and named a stored Dream
Accepted(r, rsp) == r.op \in {"create", "update"} /\ rsp.status \notin {400, 404}

EmptyList == PyList(<<>>)

\* C1: an update that omits persons (tags) leaves the Dream's persons (tags)
\* as they were, and an update that supplies [] for persons (tags) leaves
\* them empty.
C1_OmitKeepsEmptyClears ==
    [][(req'.op = "update" /\ Accepted(req', resp')) =>
          /\ req'.persons = Absent =>
                dreams'[req'.id].persons = dreams[req'.id].persons
          /\ req'.tags = Absent =>
                dreams'[req'.id].tags = dreams[req'.id].tags
          /\ req'.persons = EmptyList => dreams'[req'.id].persons = {}
          /\ req'.tags = EmptyList => dreams'[req'.id].tags = {}]_vars

\* a payload that is a list of IDs
IsIdList(p) ==
    p.t = "list" /\ \A i \in 1..Len(p.items) : p.items[i].t = "int" /\ p.items[i].n >= 0

Named(table, p) == {id \in DOMAIN table : \E i \in 1..Len(p.items) : p.items[i].n = id}

\* C2: after a create or update that supplies persons (tags) as a list of
\* IDs the Dream's persons (tags) are exactly the stored Persons (Tags) the
\* list names; the request succeeds and creates no Person and no Tag.
C2_ListReplacesMembership ==
    [][(Accepted(req', resp') /\ (IsIdList(req'.persons) \/ IsIdList(req'.tags))) =>
          /\ resp'.status \in {200, 201}
          /\ persons' = persons
          /\ tags' = tags
          /\ IsIdList(req'.persons) =>
                dreams'[resp'.id].persons = Named(persons, req'.persons)
          /\ IsIdList(req'.tags) =>
                dreams'[resp'.id].tags = Named(tags, req'.tags)]_vars

\* C7: a Dream created without a dream_date (absent or null) is stored with
\* the day before the server's current date; one created with an explicit
\* dream_date is stored with exactly that date.
C7_DreamDate ==
    (req.op = "create" /\ resp.status # 400) =>
        dreams[resp.id].dream_date =
            IF req.dream_date \in {Absent, None} THEN Date(req.today - 1)
            ELSE req.dream_date

C7_Witness ==
    /\ req.op = "create"
    /\ req.dream_date = Absent
    /\ req.today = 11
    /\ resp.status = 201
    /\ dreams[resp.id].dream_date = Date(10)

MissingOrEmpty(d) == d \in {Absent, PyStr(<<>>)}

\* C8: a Dream create request or an interpret request whose description is
\* missing or empty is answered 400 and changes nothing in the store.
C8_NoDescriptionRejected ==
    [][(req'.op \in {"create", "interpret"} /\ MissingOrEmpty(req'.description)) =>
          resp'.status = 400 /\ store' = store]_vars

C8_Witness ==
    /\ req.op = "create"
    /\ MissingOrEmpty(req.description)
    /\ resp.status = 400
    /\ 1 \in DOMAIN persons
    /\ 1 \in DOMAIN tags
    /\ dreams = <<>>

(***************************************************************************)
(* Claims about the interpreter                                            *)
(***************************************************************************)
Analyzed == req.op = "interpret" /\ resp.status = 200

NoDuplicates(q) == \A i, j \in 1..Len(q) : q[i] = q[j] => i = j

Tokens == Range(findall(req.description.s, 1))

NamedBy(token) == {p \in DOMAIN persons : lower(persons[p]) = lower(token)}

\* C9: every capitalized-word token of the text that equals, ignoring case,
\* the name of a stored Person puts that Person's id in the suggested person
\* ids; every other token is a suggested new name as written; neither list
\* has duplicates and no token is in both.
C9_TokensPartitioned ==
    Analyzed =>
        LET ids   == resp.analysis.suggested_person_ids
            names == resp.analysis.suggested_new_person_names
        IN  /\ Range(ids) = UNION {NamedBy(token) : token \in Tokens}
            /\ Range(names) = {token \in Tokens : NamedBy(token) = {}}
            /\ NoDuplicates(ids)
            /\ NoDuplicates(names)

ConceptTags(text) ==
    {t \in DOMAIN tags :
        \E c \in 1..Len(tag_keywords) :
            /\ lower(tags[t]) = tag_keywords[c].tag_name
            /\ \E w \in 1..Len(tag_keywords[c].keywords) :
                  Contains(lower(text), tag_keywords[c].keywords[w])}

\* C10: the suggested tag ids hold the id of a stored Tag exactly when the
\* Tag's name equals, ignoring case, one of the four concepts and a keyword of
\* that concept occurs in the text, ignoring case; the list has no duplicates.
C10_TagsSuggested ==
    Analyzed =>
        /\ Range(resp.analysis.suggested_tag_ids) = ConceptTags(req.description.s)
        /\ NoDuplicates(resp.analysis.suggested_tag_ids)

(***************************************************************************)
(* Claims about the dashboard                                              *)
(***************************************************************************)
\* C11: whatever persons and dreams the store holds, the dashboard request
\* succeeds; chart_labels, chart_data and persons_summary have one entry per
\* stored Person, and at every index they give the name of one Person and
\* the number of Dreams whose persons contain that Person
C11_DashboardCounts ==
    req.op = "dashboard" =>
        /\ resp.status = 200
        /\ Len(resp.chart_labels) = Cardinality(DOMAIN persons)
        /\ Len(resp.chart_data) = Len(resp.chart_labels)
        /\ Len(resp.persons_summary) = Len(resp.chart_labels)
        /\ {resp.persons_summary[i].id : i \in 1..Len(resp.persons_summary)}
               = DOMAIN persons
        /\ \A i \in 1..Len(resp.chart_labels) :
               LET p == resp.persons_summary[i]
               IN  /\ p.name = persons[p.id]
                   /\ p.qty_dreams = qty_dreams(p.id)
                   /\ resp.chart_labels[i] = p.name
                   /\ resp.chart_data[i] = p.qty_dreams

(***************************************************************************)
(* Claims about the writes of one dream request                            *)
(***************************************************************************)
\* the members a relation payload asks for, given the members before
Asked(table, p, before) == IF p = Absent THEN before ELSE Named(table, p)

\* the request in flight ended before its last write
EndedEarly(f) == f.pc = "ended" /\ f.outcome \in {"failed", "interrupted"}

\* C12: a dream create or update is three separate writes, the scalar
\* fields, then the persons, then the tags, each one changing only its part
\* of that Dream; a request that fails or is interrupted after k of them
\* leaves the store exactly as the k completed writes made it
C12_StepsKept ==
    [][LET f == inflight
           g == inflight'
       IN  /\ (Free /\ g.pc = "persons") =>
                 /\ g.k = 1
                 /\ g.id \in DOMAIN dreams'
                 /\ \A d \in DOMAIN dreams' \ {g.id} :
                        d \in DOMAIN dreams /\ dreams'[d] = dreams[d]
                 /\ dreams'[g.id].description =
                        IF g.r.description = Absent
                        THEN dreams[g.id].description
                        ELSE g.r.description.s
                 /\ dreams'[g.id].persons =
                        IF g.r.op = "create" THEN {} ELSE dreams[g.id].persons
                 /\ dreams'[g.id].tags =
                        IF g.r.op = "create" THEN {} ELSE dreams[g.id].tags
           /\ (f.pc = "persons" /\ g.pc = "tags") =>
                 /\ g.k = 2
                 /\ dreams' = [dreams EXCEPT ![f.id].persons =
                                  Asked(persons, f.r.persons, @)]
           /\ (f.pc = "tags" /\ g.pc = "ended" /\ g.outcome = "ok") =>
                 /\ g.k = 3
                 /\ dreams' = [dreams EXCEPT ![f.id].tags =
                                  Asked(tags, f.r.tags, @)]
           /\ (~Free /\ EndedEarly(g)) =>
                 /\ g.k = f.k
                 /\ store' = store
                 /\ resp'.status \notin {200, 201}
      ]_vars

\* a create that named a stored Person and a stored Tag was interrupted
\* after its first write, and a list request by another worker shows the
\* Dream with its description and no persons and no tags
C12_Witness ==
    /\ req.op = "list"
    /\ EndedEarly(inflight)
    /\ inflight.outcome = "interrupted"
    /\ inflight.k = 1
    /\ inflight.r.op = "create"
    /\ IsIdList(inflight.r.persons)
    /\ Named(persons, inflight.r.persons) # {}
    /\ IsIdList(inflight.r.tags)
    /\ Named(tags, inflight.r.tags) # {}
    /\ inflight.id \in DOMAIN resp.dreams
    /\ resp.dreams[inflight.id].description = inflight.r.description.s
    /\ resp.dreams[inflight.id].persons = {}
    /\ resp.dreams[inflight.id].tags = {}

====
